---- MODULE Spec2Model ----
(***************************************************************************)
(* A model of image_resizer.py: the aspect-ratio size calculation          *)
(* (ImageResizer.calculate_new_size, with Python's float arithmetic        *)
(* modelled as correctly rounded IEEE-754 binary64), the per-file pipeline *)
(* (ImageResizer.resize_image), the batch loop (process_batch) and the     *)
(* exit statuses of main.                                                  *)
(***************************************************************************)
EXTENDS Integers, Sequences, FiniteSets, TLC

(***************************************************************************)
(* Python floats.  orig_width / orig_height, target * ratio and            *)
(* target / ratio are binary64 operations: each returns the double nearest *)
(* to the exact result (ties to even).  A double is [m, e], standing for   *)
(* m * 2^e, with m = 0 or 2^52 <= m < 2^53.  The mantissa does not fit a   *)
(* machine integer of the checker, so it is a little-endian sequence of    *)
(* limbs in base 2^15 with no leading zero limb (<<>> is 0).               *)
(***************************************************************************)
Base == 2^15

MantBits == 53

RECURSIVE BigOfInt(_)
BigOfInt(n) == IF n = 0 THEN <<>> ELSE <<n % Base>> \o BigOfInt(n \div Base)

RECURSIVE IntOfBig(_)
IntOfBig(a) == IF a = <<>> THEN 0 ELSE a[1] + Base * IntOfBig(Tail(a))

RECURSIVE BigNorm(_)
BigNorm(a) ==
    IF a = <<>> THEN <<>>
    ELSE IF a[Len(a)] = 0 THEN BigNorm(SubSeq(a, 1, Len(a) - 1))
    ELSE a

\* -1, 0 or 1 as a < b, a = b or a > b, comparing limbs i..1 of equal-length a, b
RECURSIVE BigCmpFrom(_, _, _)
BigCmpFrom(a, b, i) ==
    IF i = 0 THEN 0
    ELSE IF a[i] < b[i] THEN -1
    ELSE IF a[i] > b[i] THEN 1
    ELSE BigCmpFrom(a, b, i - 1)

BigCmp(a, b) ==
    IF Len(a) < Len(b) THEN -1
    ELSE IF Len(a) > Len(b) THEN 1
    ELSE BigCmpFrom(a, b, Len(a))

\* a * t + carry for a small t
RECURSIVE BigMulSmall(_, _, _)
BigMulSmall(a, t, carry) ==
    IF a = <<>> THEN BigOfInt(carry)
    ELSE LET p == a[1] * t + carry
         IN  <<p % Base>> \o BigMulSmall(Tail(a), t, p \div Base)

\* a - b for a >= b, before normalisation
RECURSIVE BigSubRaw(_, _, _)
BigSubRaw(a, b, borrow) ==
    IF a = <<>> THEN <<>>
    ELSE LET bi == IF b = <<>> THEN 0 ELSE b[1]
             d  == a[1] - bi - borrow
             bt == IF b = <<>> THEN <<>> ELSE Tail(b)
         IN  IF d < 0 THEN <<d + Base>> \o BigSubRaw(Tail(a), bt, 1)
             ELSE <<d>> \o BigSubRaw(Tail(a), bt, 0)

BigSub(a, b) == BigNorm(BigSubRaw(a, b, 0))

BigDbl(a) == BigMulSmall(a, 2, 0)

RECURSIVE BigShl(_, _)
BigShl(a, k) ==
    IF a = <<>> \/ k = 0 THEN a
    ELSE IF k >= 15 THEN <<0>> \o BigShl(a, k - 15)
    ELSE BigMulSmall(a, 2^k, 0)

\* floor(a / 2^k) for 0 <= k < 15, limb by limb from the top
RECURSIVE BigShrSmall(_, _, _)
BigShrSmall(a, k, i) ==
    IF i > Len(a) THEN <<>>
    ELSE LET hi == IF i < Len(a) THEN a[i + 1] % (2^k) ELSE 0
         IN  <<(a[i] \div (2^k)) + hi * (2^(15 - k))>> \o BigShrSmall(a, k, i + 1)

RECURSIVE BigShr(_, _)
BigShr(a, k) ==
    IF a = <<>> THEN <<>>
    ELSE IF k >= 15 THEN BigShr(Tail(a), k - 15)
    ELSE BigNorm(BigShrSmall(a, k, 1))

RECURSIVE IntBitLen(_)
IntBitLen(n) == IF n = 0 THEN 0 ELSE 1 + IntBitLen(n \div 2)

BigBitLen(a) == IF a = <<>> THEN 0 ELSE 15 * (Len(a) - 1) + IntBitLen(a[Len(a)])

BigIsOdd(a) == a # <<>> /\ a[1] % 2 = 1

\* The operators below pass every intermediate value on as a parameter, one
\* step of the computation per operator.

\* The next n bits (n < 15) of the binary expansion of r / d for r < d, as an
\* integer q, and the remainder left: r * 2^n = q * d + rem
RECURSIVE QuotientBits(_, _, _)
RECURSIVE QuotientBit(_, _, _)
WithBit(rest, bit) == [q |-> rest.q + bit, rem |-> rest.rem]

\* r2 is the remainder doubled: the next bit is 1 when d fits in it
QuotientBit(r2, d, n) ==
    IF BigCmp(r2, d) >= 0
    THEN WithBit(QuotientBits(BigSub(r2, d), d, n - 1), 2^(n - 1))
    ELSE QuotientBits(r2, d, n - 1)

QuotientBits(r, d, n) ==
    IF n = 0 THEN [q |-> 0, rem |-> r] ELSE QuotientBit(BigDbl(r), d, n)

\* The bits of a mantissa after its leading 1 are produced 13 at a time
Chunks == (MantBits - 1) \div 13

\* acc extended by k chunks of quotient bits of r / d: [m, rem]
RECURSIVE QuotientChunks(_, _, _, _)
RECURSIVE NextChunk(_, _, _, _)
NextChunk(acc, c, d, k) ==
    QuotientChunks(BigMulSmall(acc, 2^13, c.q), c.rem, d, k - 1)

QuotientChunks(acc, r, d, k) ==
    IF k = 0 THEN [m |-> acc, rem |-> r]
    ELSE NextChunk(acc, QuotientBits(r, d, 13), d, k)

\* a * 2^k for k > 0, a itself otherwise
ScaleUp(a, k) == IF k > 0 THEN BigShl(a, k) ELSE a

\* The j with d * 2^j <= n < d * 2^(j+1), given j0 = bits(n) - bits(d)
AlignFix(n, d, j0) ==
    IF BigCmp(ScaleUp(n, 0 - j0), ScaleUp(d, j0)) >= 0 THEN j0 ELSE j0 - 1

Alignment(n, d) == AlignFix(n, d, BigBitLen(n) - BigBitLen(d))

\* A mantissa that rounding carried to 2^53 is halved
Renormalise(m, e) ==
    IF BigBitLen(m) > MantBits THEN [m |-> BigShr(m, 1), e |-> e + 1]
    ELSE [m |-> m, e |-> e]

\* c compares twice the remainder with the divisor: above a half rounds up, a
\* half rounds to the even mantissa
RoundsUp(m, c) == c > 0 \/ (c = 0 /\ BigIsOdd(m))

RoundNearestEven(q, dd, e) ==
    Renormalise(IF RoundsUp(q.m, BigCmp(BigDbl(q.rem), dd))
                THEN BigMulSmall(q.m, 1, 1) ELSE q.m, e)

\* nn / dd with dd <= nn < 2 * dd: the leading bit is 1, 52 more follow
Divide(nn, dd, e) ==
    RoundNearestEven(QuotientChunks(<<1>>, BigSub(nn, dd), dd, Chunks), dd, e)

Aligned(n, d, e0, j) ==
    Divide(ScaleUp(n, 0 - j), ScaleUp(d, j), e0 + j - (MantBits - 1))

\* The double nearest to (n / d) * 2^e0 for big n > 0, d > 0: round to
\* nearest, ties to even.
FloatOfRatio(n, d, e0) == Aligned(n, d, e0, Alignment(n, d))

FloatZero == [m |-> <<>>, e |-> 0]

\* a / b for Python ints a >= 0, b > 0 (true division, line 87)
FloatDivInts(a, b) ==
    IF a = 0 THEN FloatZero ELSE FloatOfRatio(BigOfInt(a), BigOfInt(b), 0)

\* t * x for an int t >= 0 and a float x >= 0 (lines 95, 100)
FloatMulInt(t, x) ==
    IF t = 0 \/ x.m = <<>> THEN FloatZero
    ELSE FloatOfRatio(BigMulSmall(x.m, t, 0), <<1>>, x.e)

\* t / x for an int t >= 0 and a float x > 0 (lines 92, 103)
FloatDivInt(t, x) ==
    IF t = 0 THEN FloatZero ELSE FloatOfRatio(BigOfInt(t), x.m, 0 - x.e)

\* int(x) for a float x >= 0: truncation
FloatToInt(x) ==
    IF x.m = <<>> THEN 0
    ELSE IF x.e >= 0 THEN IntOfBig(BigShl(x.m, x.e))
    ELSE IntOfBig(BigShr(x.m, 0 - x.e))

(***************************************************************************)
(* Python strings are sequences of one-character strings, so that          *)
(* Path.suffix, Path.stem, str.lower and '+' are computed, not assumed.    *)
(***************************************************************************)
UpperCase == <<"A", "B", "C", "D", "E", "F", "G", "H", "I", "J", "K", "L", "M",
               "N", "O", "P", "Q", "R", "S", "T", "U", "V", "W", "X", "Y", "Z">>

LowerCase == <<"a", "b", "c", "d", "e", "f", "g", "h", "i", "j", "k", "l", "m",
               "n", "o", "p", "q", "r", "s", "t", "u", "v", "w", "x", "y", "z">>

LowerChar(c) ==
    IF \E i \in 1..Len(UpperCase) : UpperCase[i] = c
    THEN LowerCase[CHOOSE i \in 1..Len(UpperCase) : UpperCase[i] = c]
    ELSE c

\* str.lower()
Lower(s) == [i \in 1..Len(s) |-> LowerChar(s[i])]

\* name.rfind('.') + 1: the index of the last dot, 0 when there is none
LastDot(name) ==
    LET dots == {i \in 1..Len(name) : name[i] = "."}
    IN  IF dots = {} THEN 0 ELSE CHOOSE i \in dots : \A k \in dots : k <= i

\* pathlib's PurePath.suffix: from the last dot on, unless the dot leads or
\* ends the name
Suffix(name) ==
    LET i == LastDot(name)
    IN  IF 1 < i /\ i < Len(name) THEN SubSeq(name, i, Len(name)) ELSE <<>>

\* pathlib's PurePath.stem
Stem(name) ==
    LET i == LastDot(name)
    IN  IF 1 < i /\ i < Len(name) THEN SubSeq(name, 1, i - 1) ELSE name

SUPPORTED_FORMATS ==
    { <<".", "j", "p", "g">>, <<".", "j", "p", "e", "g">>, <<".", "p", "n", "g">>,
      <<".", "g", "i", "f">>, <<".", "b", "m", "p">>, <<".", "t", "i", "f", "f">>,
      <<".", "w", "e", "b", "p">> }

(***************************************************************************)
(* calculate_new_size.  A call either returns a size or raises.            *)
(***************************************************************************)
Returned(size) == [exc |-> "none", size |-> size]

Raised(e) == [exc |-> e, size |-> <<>>]

\* int(target / orig_ratio) and int(target * orig_ratio)
IntOfQuotient(t, ratio) == FloatToInt(FloatDivInt(t, ratio))

IntOfProduct(t, ratio) == FloatToInt(FloatMulInt(t, ratio))

\* lines 90-95
first_fit(original_size, target_size, orig_ratio) ==
    IF original_size[1] > original_size[2]
    THEN <<target_size[1], IntOfQuotient(target_size[1], orig_ratio)>>
    ELSE <<IntOfProduct(target_size[2], orig_ratio), target_size[2]>>

\* lines 98-100
clamp_height(size, target_size, orig_ratio) ==
    IF size[2] > target_size[2]
    THEN <<IntOfProduct(target_size[2], orig_ratio), target_size[2]>>
    ELSE size

\* lines 101-105; dividing by a zero ratio raises
clamp_width(size, target_size, orig_ratio) ==
    IF size[1] > target_size[1]
    THEN IF orig_ratio = FloatZero THEN Raised("ZeroDivisionError")
         ELSE Returned(<<target_size[1], IntOfQuotient(target_size[1], orig_ratio)>>)
    ELSE Returned(size)

\* lines 90-105, once orig_ratio is known
fit(original_size, target_size, orig_ratio) ==
    clamp_width(clamp_height(first_fit(original_size, target_size, orig_ratio),
                             target_size, orig_ratio),
                target_size, orig_ratio)

\* The mutant without the clamps of lines 98-103
calculate_new_size_no_clamp(original_size, target_size, maintain_aspect_ratio) ==
    IF ~maintain_aspect_ratio THEN Returned(target_size)
    ELSE IF original_size[2] = 0 THEN Raised("ZeroDivisionError")
    ELSE Returned(first_fit(original_size, target_size,
                            FloatDivInts(original_size[1], original_size[2])))

\* The mutant that computes the ratio before looking at the flag
calculate_new_size_ratio_first(original_size, target_size, maintain_aspect_ratio) ==
    IF original_size[2] = 0 THEN Raised("ZeroDivisionError")
    ELSE IF ~maintain_aspect_ratio THEN Returned(target_size)
    ELSE fit(original_size, target_size,
             FloatDivInts(original_size[1], original_size[2]))

\* lines 80-105
calculate_new_size(original_size, target_size, maintain_aspect_ratio) ==
    IF ~maintain_aspect_ratio THEN Returned(target_size)
    \* line 87: orig_width / orig_height
    ELSE IF original_size[2] = 0 THEN Raised("ZeroDivisionError")
    ELSE fit(original_size, target_size,
             FloatDivInts(original_size[1], original_size[2]))

(***************************************************************************)
(* The file system.  A directory listing is a sequence of entries with     *)
(* distinct names, in the order iterdir yields them.  An entry is a        *)
(* regular file holding an image (decodable or not, with the size and mode *)
(* the codec reports on opening it) or a directory.                        *)
(***************************************************************************)
File(name, decodes, size, mode) ==
    [name |-> name, is_file |-> TRUE, decodes |-> decodes, size |-> size, mode |-> mode]

Dir(name) ==
    [name |-> name, is_file |-> FALSE, decodes |-> FALSE, size |-> <<0, 0>>, mode |-> "none"]

Names(listing) == {listing[i].name : i \in 1..Len(listing)}

Lookup(listing, name) ==
    listing[CHOOSE i \in 1..Len(listing) : listing[i].name = name]

\* Writing a file: an existing entry of that name is replaced where it is; a
\* new entry is listed last.
WriteFile(listing, entry) ==
    IF entry.name \in Names(listing)
    THEN [i \in 1..Len(listing) |->
             IF listing[i].name = entry.name THEN entry ELSE listing[i]]
    ELSE Append(listing, entry)

\* Path.mkdir(parents=True, exist_ok=True) of a subfolder
MakeDir(listing, name) ==
    IF name \in Names(listing) THEN listing ELSE WriteFile(listing, Dir(name))

ResizedFolder == <<"r", "e", "s", "i", "z", "e", "d">>

\* The mutant that walks into subfolders (rglob instead of iterdir)
get_image_files_recursive(fsys) ==
    SelectSeq(fsys.input \o fsys.resized,
              LAMBDA e : e.is_file /\ Lower(Suffix(e.name)) \in SUPPORTED_FORMATS)

\* The paths of the supported image files of the input folder, in listing order
get_image_files(fsys) ==
    SelectSeq(fsys.input,
              LAMBDA e : e.is_file /\ Lower(Suffix(e.name)) \in SUPPORTED_FORMATS)

(***************************************************************************)
(* resize_image                                                            *)
(***************************************************************************)
Jpg == <<"j", "p", "g">>

Jpeg == <<"j", "p", "e", "g">>

Png == <<"p", "n", "g">>

\* The mutant that always keeps the input's own extension
output_filename_keep_suffix(image_path, output_format) ==
    Stem(image_path) \o Suffix(image_path)

\* line 138
format_of(image_path, output_format) ==
    IF output_format # <<>> THEN output_format ELSE Lower(Tail(Suffix(image_path)))

\* line 139
output_filename(image_path, output_format) ==
    Stem(image_path) \o <<".">> \o format_of(image_path, output_format)

UpperChar(c) ==
    IF \E i \in 1..Len(LowerCase) : LowerCase[i] = c
    THEN UpperCase[CHOOSE i \in 1..Len(LowerCase) : LowerCase[i] = c]
    ELSE c

\* str.upper()
Upper(s) == [i \in 1..Len(s) |-> UpperChar(s[i])]

\* The format names the codec has an encoder for; save(format=...) of any
\* other name raises KeyError.
Encoders ==
    { <<"J", "P", "E", "G">>, <<"P", "N", "G">>, <<"G", "I", "F">>,
      <<"B", "M", "P">>, <<"T", "I", "F", "F">>, <<"W", "E", "B", "P">> }

\* What the try block does: what it raises ("none": nothing) and what it
\* saves under which name
Raise(e) == [exc |-> e, name |-> <<>>, image |-> File(<<>>, FALSE, <<0, 0>>, "none")]

Save(name, size, mode) == [exc |-> "none", name |-> name, image |-> File(name, TRUE, size, mode)]

\* lines 123-129: an image with transparency is flattened for JPEG output,
\* which keeps its size
flattened_mode(mode, output_format) ==
    IF output_format \in {Jpg, Jpeg} /\ mode \in {"RGBA", "LA", "P"} THEN "RGB" ELSE mode

\* lines 135-148: img.resize refuses a dimension below 1, and
\* save(format=output_format.upper()) a format it has no encoder for
resize_and_save(mode, new_size, image_path, output_format) ==
    IF new_size.exc # "none" THEN Raise(new_size.exc)
    ELSE IF new_size.size[1] < 1 \/ new_size.size[2] < 1 THEN Raise("ValueError")
    ELSE IF Upper(format_of(image_path, output_format)) \notin Encoders
    THEN Raise("KeyError")
    ELSE Save(output_filename(image_path, output_format), new_size.size, mode)

\* lines 119-148, for the file Image.open finds at image_path
process_file(file, image_path, output_format, target_size, maintain_aspect_ratio) ==
    IF ~file.is_file \/ ~file.decodes THEN Raise("UnidentifiedImageError")
    ELSE resize_and_save(flattened_mode(file.mode, output_format),
                         calculate_new_size(file.size, target_size, maintain_aspect_ratio),
                         image_path, output_format)

try_body(image_path, listing, output_format, target_size, maintain_aspect_ratio) ==
    IF image_path \notin Names(listing) THEN Raise("FileNotFoundError")
    ELSE process_file(Lookup(listing, image_path), image_path, output_format,
                      target_size, maintain_aspect_ratio)

\* The counters' gains for what the try block raised: lines 158 and 161-163
Counted(b) ==
    [ok |-> b.exc = "none", exc |-> b.exc, name |-> b.name, image |-> b.image,
     processed |-> IF b.exc = "none" THEN 1 ELSE 0,
     failed |-> IF b.exc = "none" THEN 0 ELSE 1]

\* As Counted, with a handler that counts only the codec's errors
CountedCodecOnly(b) ==
    [ok |-> b.exc = "none", exc |-> b.exc, name |-> b.name, image |-> b.image,
     processed |-> IF b.exc = "none" THEN 1 ELSE 0,
     failed |-> IF b.exc \in {"none", "ZeroDivisionError"} THEN 0 ELSE 1]

\* The mutant whose handler does not count a ZeroDivisionError as a failure
resize_image_uncounted(image_path, listing, output_format, target_size, maintain_aspect_ratio) ==
    CountedCodecOnly(try_body(image_path, listing, output_format, target_size,
                              maintain_aspect_ratio))

\* try/except of lines 117-164: what is saved and what each counter gains
resize_image(image_path, listing, output_format, target_size, maintain_aspect_ratio) ==
    Counted(try_body(image_path, listing, output_format, target_size,
                     maintain_aspect_ratio))

(***************************************************************************)
(* main: what ends the process with which status                           *)
(***************************************************************************)
\* The mutant without the sys.exit(1) of the KeyboardInterrupt handler
main_exit_status_interrupt_ok(event) ==
    IF event \in {"missing", "not_a_directory", "Exception"} THEN 1 ELSE 0

main_exit_status(event) ==
    IF event \in {"missing", "not_a_directory", "KeyboardInterrupt", "Exception"}
    THEN 1 ELSE 0

(***************************************************************************)
(* The state                                                               *)
(***************************************************************************)
VARIABLES
    input_kind,             \* what args.input_folder names: "missing", "file", "dir"
    output_same,            \* the output folder is the input folder itself
    output_format,          \* self.output_format; <<>> is None
    target_size,            \* self.target_size
    maintain_aspect_ratio,  \* self.maintain_aspect_ratio
    fs,                     \* the listings of the input folder and of <input>/resized
    pc,                     \* where the process is
    image_files,            \* the names get_image_files returned
    idx,                    \* the loop index i of process_batch
    processed,
    failed,
    skipped,
    exit_status,            \* the process's exit status once pc = "exited", else -1
    reported,               \* the counts print_summary logged; <<>> before
    written,                \* this run's saves: [src, dst] in order
    outcomes,               \* what each resize_image call raised ("none": nothing)
    interrupted,            \* the user interrupted this run
    escaped,                \* an exception escaped process_batch in this run
    run,                    \* 1: the first run of the tool, 2: the run after it
    first_run,              \* what the first run enumerated, counted and wrote
    original_size,          \* the argument of a call of calculate_new_size
    new_size                \* what that call returned or raised

config == <<input_kind, output_same, output_format, target_size, maintain_aspect_ratio>>

counters == <<processed, failed, skipped>>

process == <<pc, image_files, idx, counters, exit_status, reported, written,
             outcomes, interrupted, escaped>>

vars == <<config, fs, process, run, first_run, original_size, new_size>>

\* Bounds of the model
MaxFiles == 2

MaxOrig == 9

MaxTarget == 9

\* The directory entries a modelled input folder is made of
Universe ==
    { File(<<"a", ".", "p", "n", "g">>, TRUE, <<9, 7>>, "RGBA"),
      File(<<"a", ".", "P", "N", "G">>, TRUE, <<3, 5>>, "RGB"),
      File(<<"a", ".", "j", "p", "g">>, TRUE, <<8, 1>>, "RGB"),
      File(<<"b", ".", "g", "i", "f">>, FALSE, <<0, 0>>, "none"),
      File(<<"c", ".", "b", "m", "p">>, TRUE, <<4, 0>>, "P"),
      File(<<"n", ".", "t", "x", "t">>, FALSE, <<0, 0>>, "none"),
      Dir(<<"d", ".", "p", "n", "g">>) }

Listings ==
    {l \in UNION {[1..k -> Universe] : k \in 0..MaxFiles} :
        \A i, j \in 1..Len(l) : i # j => l[i] # l[j]}

BatchTarget == <<4, 3>>

NoRun == [done |-> FALSE, enumerated |-> {}, counters |-> <<0, 0, 0>>, outputs |-> {}]

\* ImageResizer.__init__ (lines 42-52) of a process that has just started
Fresh ==
    /\ pc = "validate"
    /\ image_files = <<>>
    /\ idx = 0
    /\ processed = 0
    /\ failed = 0
    /\ skipped = 0
    /\ exit_status = -1
    /\ reported = <<>>
    /\ written = <<>>
    /\ outcomes = <<>>
    /\ interrupted = FALSE
    /\ escaped = FALSE

Init ==
    /\ input_kind \in {"missing", "file", "dir"}
    /\ IF input_kind = "dir"
       THEN /\ output_same \in BOOLEAN
            /\ output_format \in {<<>>, Png, Jpeg}
            /\ maintain_aspect_ratio \in BOOLEAN
            /\ \E l \in Listings : fs = [input |-> l, resized |-> <<>>]
       ELSE /\ output_same = FALSE
            /\ output_format = <<>>
            /\ maintain_aspect_ratio = TRUE
            /\ fs = [input |-> <<>>, resized |-> <<>>]
    /\ target_size = BatchTarget
    /\ Fresh
    /\ run = 1
    /\ first_run = NoRun
    /\ original_size = <<0, 0>>
    /\ new_size = Raised("none")

Exit(event) ==
    /\ pc' = "exited"
    /\ exit_status' = main_exit_status(event)

\* main, lines 267-284: the input folder is validated
Validate ==
    /\ pc = "validate"
    /\ IF input_kind = "missing" THEN Exit("missing")
       ELSE IF input_kind = "file" THEN Exit("not_a_directory")
       ELSE pc' = "batch" /\ exit_status' = exit_status
    /\ UNCHANGED <<config, fs, image_files, idx, counters, reported, written,
                   outcomes, interrupted, escaped, run, first_run,
                   original_size, new_size>>

\* process_batch, lines 166-185: the output folder is created and the input
\* folder listed; an empty list returns at once
StartBatch ==
    /\ pc = "batch"
    /\ fs' = IF output_same THEN fs
             ELSE [fs EXCEPT !.input = MakeDir(fs.input, ResizedFolder)]
    /\ \E files \in {get_image_files(fs')} :
           /\ image_files' = [i \in 1..Len(files) |-> files[i].name]
           /\ IF files = <<>>
              THEN Exit("returned") /\ idx' = idx
              ELSE pc' = "loop" /\ idx' = 1 /\ exit_status' = exit_status
    /\ UNCHANGED <<config, counters, reported, written, outcomes, interrupted,
                   escaped, run, first_run, original_size, new_size>>

\* One iteration of the loop of lines 188-190: resize_image on the next file
ResizeImage ==
    /\ pc = "loop"
    /\ idx <= Len(image_files)
    /\ \E r \in {resize_image(image_files[idx], fs.input, output_format,
                              target_size, maintain_aspect_ratio)} :
           /\ processed' = processed + r.processed
           /\ failed' = failed + r.failed
           /\ outcomes' = Append(outcomes, r.exc)
           /\ IF r.ok
              THEN /\ written' = Append(written, [src |-> image_files[idx], dst |-> r.name])
                   /\ fs' = IF output_same
                            THEN [fs EXCEPT !.input = WriteFile(fs.input, r.image)]
                            ELSE [fs EXCEPT !.resized = WriteFile(fs.resized, r.image)]
              ELSE UNCHANGED <<written, fs>>
    /\ idx' = idx + 1
    /\ pc' = IF idx = Len(image_files) THEN "summary" ELSE "loop"
    /\ UNCHANGED <<config, image_files, skipped, exit_status, reported,
                   interrupted, escaped, run, first_run, original_size, new_size>>

\* print_summary (line 193), after which process_batch and main return
PrintSummary ==
    /\ pc = "summary"
    /\ reported' = <<processed, failed, skipped>>
    /\ Exit("returned")
    /\ UNCHANGED <<config, fs, image_files, idx, counters, written, outcomes,
                   interrupted, escaped, run, first_run, original_size, new_size>>

InBatch == pc \in {"batch", "loop", "summary"}

\* The user interrupts process_batch: lines 289-291
KeyboardInterrupt ==
    /\ InBatch
    /\ interrupted' = TRUE
    /\ Exit("KeyboardInterrupt")
    /\ UNCHANGED <<config, fs, image_files, idx, counters, reported, written,
                   outcomes, escaped, run, first_run, original_size, new_size>>

\* mkdir or iterdir raises (no permission, the folder vanished): the
\* exception leaves process_batch, lines 292-294
BatchRaises ==
    /\ pc = "batch"
    /\ escaped' = TRUE
    /\ Exit("Exception")
    /\ UNCHANGED <<config, fs, image_files, idx, counters, reported, written,
                   outcomes, interrupted, run, first_run, original_size, new_size>>

\* The tool is started again on the same folders with the same arguments
\* after a run that ended normally
RunAgain ==
    /\ pc = "exited"
    /\ exit_status = 0
    /\ run = 1
    /\ run' = 2
    /\ first_run' = [done |-> TRUE,
                     enumerated |-> {image_files[i] : i \in 1..Len(image_files)},
                     counters |-> <<processed, failed, skipped>>,
                     outputs |-> {written[i].dst : i \in 1..Len(written)}]
    \* a new process: __init__, lines 42-52
    /\ pc' = "validate"
    /\ image_files' = <<>>
    /\ idx' = 0
    /\ processed' = 0
    /\ failed' = 0
    /\ skipped' = 0
    /\ exit_status' = -1
    /\ reported' = <<>>
    /\ written' = <<>>
    /\ outcomes' = <<>>
    /\ interrupted' = FALSE
    /\ escaped' = FALSE
    /\ UNCHANGED <<config, fs, original_size, new_size>>

Next ==
    \/ Validate
    \/ StartBatch
    \/ ResizeImage
    \/ PrintSummary
    \/ KeyboardInterrupt
    \/ BatchRaises
    \/ RunAgain

Spec == Init /\ [][Next]_vars

(***************************************************************************)
(* calculate_new_size alone, on every original size and target box within  *)
(* the bounds                                                              *)
(***************************************************************************)
InitSize ==
    /\ pc = "size_call"
    /\ original_size \in (0..MaxOrig) \X (0..MaxOrig)
    /\ target_size \in (1..MaxTarget) \X (1..MaxTarget)
    /\ maintain_aspect_ratio \in BOOLEAN
    /\ new_size = Raised("none")
    /\ input_kind = "dir"
    /\ output_same = FALSE
    /\ output_format = <<>>
    /\ fs = [input |-> <<>>, resized |-> <<>>]
    /\ image_files = <<>>
    /\ idx = 0
    /\ processed = 0
    /\ failed = 0
    /\ skipped = 0
    /\ exit_status = -1
    /\ reported = <<>>
    /\ written = <<>>
    /\ outcomes = <<>>
    /\ interrupted = FALSE
    /\ escaped = FALSE
    /\ run = 1
    /\ first_run = NoRun

CalculateNewSize ==
    /\ pc = "size_call"
    /\ new_size' = calculate_new_size(original_size, target_size, maintain_aspect_ratio)
    /\ pc' = "size_returned"
    /\ UNCHANGED <<config, fs, image_files, idx, counters, exit_status, reported,
                   written, outcomes, interrupted, escaped, run, first_run,
                   original_size>>

NextSize == CalculateNewSize

SpecSize == InitSize /\ [][NextSize]_vars

(***************************************************************************)
(* The claims about calculate_new_size, checked under SpecSize              *)
(***************************************************************************)
SizeReturned == pc = "size_returned"

PositiveOriginal == original_size[1] >= 1 /\ original_size[2] >= 1

\* C1: with maintain_aspect_ratio set, for every original size and target box
\* with all dimensions >= 1, calculate_new_size returns a size that is within
\* the target box in both dimensions.
C1_WithinTargetBox ==
    (SizeReturned /\ maintain_aspect_ratio /\ PositiveOriginal) =>
        /\ new_size.exc = "none"
        /\ new_size.size[1] <= target_size[1]
        /\ new_size.size[2] <= target_size[2]

\* A wide original whose first fit was too high: the height clamp acted
C1_Witness ==
    /\ SizeReturned /\ maintain_aspect_ratio /\ PositiveOriginal
    /\ original_size[1] > original_size[2]
    /\ new_size.exc = "none"
    /\ new_size.size[2] = target_size[2]
    /\ new_size.size[1] < target_size[1]

\* C3: for every original size and target box with all dimensions >= 1, the
\* size calculate_new_size returns has width >= 1 and height >= 1.
C3_AtLeastOnePixel ==
    (SizeReturned /\ PositiveOriginal) =>
        /\ new_size.exc = "none"
        /\ new_size.size[1] >= 1
        /\ new_size.size[2] >= 1

\* C8: with maintain_aspect_ratio unset, calculate_new_size returns exactly
\* the target size for every original size, zero width or height included.
C8_TargetWhenNotMaintaining ==
    (SizeReturned /\ ~maintain_aspect_ratio) => new_size = Returned(target_size)

C8_Witness ==
    /\ SizeReturned /\ ~maintain_aspect_ratio
    /\ original_size[2] = 0
    /\ new_size = Returned(target_size)

\* C9: for every original size and target box with all dimensions >= 1, with
\* maintain_aspect_ratio set, calculate_new_size returns what the rule in
\* exact integer arithmetic gives: from (tw, floor(tw * h / w)) if w >= h and
\* from (floor(th * w / h), th) otherwise, the height re-fixed at th if it
\* exceeds th, then the width re-fixed at tw if it exceeds tw.
C9_SameAsExactRule ==
    (SizeReturned /\ maintain_aspect_ratio /\ PositiveOriginal) =>
        LET w  == original_size[1]
            h  == original_size[2]
            tw == target_size[1]
            th == target_size[2]
            a  == IF w >= h THEN <<tw, (tw * h) \div w>> ELSE <<(th * w) \div h, th>>
            b  == IF a[2] > th THEN <<(th * w) \div h, th>> ELSE a
            c  == IF b[1] > tw THEN <<tw, (tw * h) \div w>> ELSE b
        IN  new_size = Returned(c)

(***************************************************************************)
(* The claims about the batch and the process, checked under Spec          *)
(***************************************************************************)
Count(seq, P(_)) == Cardinality({i \in 1..Len(seq) : P(seq[i])})

BatchCompleted == reported # <<>>

\* C2: every file process_batch has gone through has caused exactly one
\* counter increment, processed if nothing was raised and failed if anything
\* was (a division by zero in the size calculation included), and none is
\* skipped: once the batch has run to completion over the N enumerated files,
\* all N were attempted and processed + failed = N.
C2_OneIncrementPerFile ==
    /\ skipped = 0
    /\ processed = Count(outcomes, LAMBDA o : o = "none")
    /\ failed = Count(outcomes, LAMBDA o : o # "none")
    /\ pc \in {"loop", "summary"} => Len(outcomes) = idx - 1
    /\ BatchCompleted =>
          /\ Len(outcomes) = Len(image_files)
          /\ processed + failed = Len(image_files)

\* A completed batch in which a file after a division by zero was processed
C2_Witness ==
    /\ BatchCompleted
    /\ \E i, j \in 1..Len(outcomes) :
          i < j /\ outcomes[i] = "ZeroDivisionError" /\ outcomes[j] = "none"

C5_InterruptReportsCounts ==
    (pc = "exited" /\ interrupted) =>
        /\ exit_status # 0
        /\ reported = <<processed, failed, skipped>>

\* C6, as stated: the output name of every processed file is its stem, '.'
\* and the configured output format if one is set, else its own extension
\* unchanged.
C6_ExtensionUnchanged ==
    \A i \in 1..Len(written) :
        written[i].dst = Stem(written[i].src) \o <<".">> \o
            (IF output_format # <<>> THEN output_format
             ELSE Tail(Suffix(written[i].src)))

\* C6, amended: ... else its own extension in lower case.
C6_ExtensionLowerCased ==
    \A i \in 1..Len(written) :
        written[i].dst = Stem(written[i].src) \o <<".">> \o
            (IF output_format # <<>> THEN output_format
             ELSE Lower(Tail(Suffix(written[i].src))))

\* A file with an upper-case extension processed with no output format set
C6_Witness ==
    /\ output_format = <<>>
    /\ \E i \in 1..Len(written) :
          /\ Suffix(written[i].src) = <<".", "P", "N", "G">>
          /\ written[i].dst = <<"a", ".", "p", "n", "g">>

SecondRunCompleted == run = 2 /\ pc = "exited" /\ exit_status = 0 /\ first_run.done

SameAsFirstRun ==
    /\ <<processed, failed, skipped>> = first_run.counters
    /\ {written[i].dst : i \in 1..Len(written)} = first_run.outputs
    /\ {image_files[i] : i \in 1..Len(image_files)} \subseteq first_run.enumerated

\* C7, as stated: a second run of the tool on the same input folder with the
\* same configuration yields the counters and the output names of the first
\* and enumerates no file the first did not.
C7_SecondRunSame == SecondRunCompleted => SameAsFirstRun

\* C7, amended: ... provided the output folder is not the input folder
\* itself; the second run then overwrites the outputs of the first.
C7_SecondRunSameElsewhere ==
    (SecondRunCompleted /\ ~output_same) =>
        /\ SameAsFirstRun
        /\ Names(fs.resized) = first_run.outputs

\* A second run into <input>/resized that overwrote an output and failed on
\* a file
C7_Witness ==
    /\ SecondRunCompleted /\ ~output_same
    /\ processed >= 1
    /\ failed >= 1
    /\ Names(fs.resized) # {}

\* C10: at the end of a batch the number of distinct output files written
\* equals the processed counter: no two processed files were saved to the
\* same output path.
C10_NoOutputOverwritten ==
    BatchCompleted =>
        Cardinality({written[i].dst : i \in 1..Len(written)}) = processed

====
